---- MODULE Spec2Model ----
(***************************************************************************)
(* Model of the resilient request layer of the Trello MCP server:          *)
(* TrelloClient.makeRequest and its helpers (src/src/trello/client.ts).    *)
(*                                                                         *)
(* One logical call is a process that runs from one await to the next:     *)
(* awaiting the fetch of a physical attempt (pc = "fetch"), awaiting a     *)
(* sleep (pc = "sleep") or finished (pc = "done").  The backend's answers  *)
(* are the inputs, drawn from the bounded set Responses and FetchErrors.   *)
(***************************************************************************)
EXTENDS Integers, Sequences, FiniteSets, TLC

(***************************************************************************)
(* Bounds of the model                                                     *)
(***************************************************************************)
\* longest header value, in characters
MaxHeaderLen == 1
\* the attempt numbers calculateBackoffDelay is applied to on its own
MaxBackoffAttempt == 6

(***************************************************************************)
(* Program constants                                                       *)
(***************************************************************************)
maxRetries == 3
baseDelay == 1000
maxDelay == 10000
\* parseInt(header || '60', 10)
DefaultRetryAfter == <<"6", "0">>
\* parseInt(remaining || '0', 10)
DefaultZero == <<"0">>
\* parseInt(limit, 10) || 300
DefaultLimit == 300

(***************************************************************************)
(* JavaScript values                                                       *)
(***************************************************************************)
\* the characters header values are made of: two digits and a non-digit
Chars == {"0", "2", "x"}

\* headers.get(name) of a header the response does not carry
Null == <<"null">>

\* every header value of at most MaxHeaderLen characters, "" included
HeaderValues == UNION {[1..n -> Chars] : n \in 0..MaxHeaderLen}

\* what headers.get(name) can return
HeaderGets == HeaderValues \cup {Null}

\* the number NaN; no header value parses to a negative number, the
\* characters having no sign
NaN == -1

\* the value undefined (lastError before any catch, rateLimit without header)
Undefined == [kind |-> "undefined"]

IsDigit(c) == c \in {"0", "2", "6"}

DigitValue(c) == CASE c = "0" -> 0 [] c = "2" -> 2 [] c = "6" -> 6

RECURSIVE ParseDigits(_, _, _)
ParseDigits(s, i, acc) ==
    IF i > Len(s) \/ ~IsDigit(s[i])
    THEN acc
    ELSE ParseDigits(s, i + 1, acc * 10 + DigitValue(s[i]))

\* parseInt(s, 10): the value of the longest prefix of digits, NaN if empty
parseInt(s) ==
    IF s = <<>> \/ ~IsDigit(s[1]) THEN NaN ELSE ParseDigits(s, 1, 0)

\* s || d on a string or null: the empty string and null are falsy
StrOr(s, d) == IF s = Null \/ s = <<>> THEN d ELSE s

\* n || d on a number: 0 and NaN are falsy
NumOr(n, d) == IF n = NaN \/ n = 0 THEN d ELSE n

\* n * k on numbers: NaN * k is NaN
Times(n, k) == IF n = NaN THEN NaN ELSE n * k

Min(a, b) == IF a <= b THEN a ELSE b

(***************************************************************************)
(* The backend's answers                                                   *)
(***************************************************************************)
OkStatuses == {200, 201}
ErrorStatuses == {304, 400, 401, 403, 404, 500, 502, 503}
RateLimitStatus == 429

\* response bodies: two JSON texts and one text that is not JSON
Bodies == {"[]", "{\"id\":\"1\"}", "<html>"}

\* a 2xx response: rate-limit headers and body vary
OkResponses ==
    [status : OkStatuses, retryAfter : {Null}, limit : HeaderGets,
     remaining : {Null, <<"2">>}, reset : {Null, <<"2">>}, body : Bodies]

\* a 429 response: the retry-after header varies
RateLimitedResponses ==
    [status : {RateLimitStatus}, retryAfter : HeaderGets, limit : {Null},
     remaining : {Null}, reset : {Null}, body : {"<html>"}]

\* every other response
ErrorResponses ==
    [status : ErrorStatuses, retryAfter : {Null}, limit : {Null},
     remaining : {Null}, reset : {Null}, body : {"<html>"}]

Responses == OkResponses \cup RateLimitedResponses \cup ErrorResponses

\* response.ok
Ok(response) == response.status >= 200 /\ response.status <= 299

\* response.json(): the parsed body, or a SyntaxError
JsonParses(body) == body \in {"[]", "{\"id\":\"1\"}"}

Json(body) ==
    CASE body = "[]" -> [array |-> <<>>]
      [] body = "{\"id\":\"1\"}" -> [id |-> "1"]

\* what an attempt can throw: a Response, an Error object (its class, its
\* name, whether its message includes 'fetch') or any other value
ResponseError(response) == [kind |-> "Response", response |-> response]
NetworkError == [kind |-> "TypeError", name |-> "TypeError", fetchInMessage |-> TRUE]
OtherTypeError == [kind |-> "TypeError", name |-> "TypeError", fetchInMessage |-> FALSE]
AbortError == [kind |-> "Error", name |-> "AbortError", fetchInMessage |-> FALSE]
SyntaxError == [kind |-> "Error", name |-> "SyntaxError", fetchInMessage |-> FALSE]
OtherValue == [kind |-> "string"]

\* what fetch itself can reject with, the abort by the timer aside
FetchErrors == {NetworkError, OtherTypeError, OtherValue}

InstanceOfError(error) == error.kind \in {"TypeError", "Error"}
InstanceOfTypeError(error) == error.kind = "TypeError"
InstanceOfResponse(error) == error.kind = "Response"

(***************************************************************************)
(* Helpers of TrelloClient                                                 *)
(***************************************************************************)
\* mutant: the snapshot is built whether or not the limit header is there
extractRateLimitInfo_Unconditional(response) ==
    [limit |-> NumOr(parseInt(StrOr(response.limit, DefaultZero)), DefaultLimit),
     remaining |-> parseInt(StrOr(response.remaining, DefaultZero)),
     resetTime |-> parseInt(StrOr(response.reset, DefaultZero))]

extractRateLimitInfo(response) ==
    IF response.limit # Null /\ response.limit # <<>>
    THEN [limit |-> NumOr(parseInt(response.limit), DefaultLimit),
          remaining |-> parseInt(StrOr(response.remaining, DefaultZero)),
          resetTime |-> parseInt(StrOr(response.reset, DefaultZero))]
    ELSE Undefined

RECURSIVE Pow2(_)
Pow2(n) == IF n <= 0 THEN 1 ELSE 2 * Pow2(n - 1)

\* mutant: the delay is not capped
calculateBackoffDelay_Uncapped(attempt) ==
    baseDelay * Pow2(attempt - 1)

\* mutant: the delay does not grow with the attempt
calculateBackoffDelay_Constant(attempt) ==
    Min(baseDelay, maxDelay)

calculateBackoffDelay(attempt) ==
    Min(baseDelay * Pow2(attempt - 1), maxDelay)

\* the message and code handleError gives an HTTP status
StatusMessage(status) ==
    CASE status = 401 -> "Invalid or expired Trello credentials. Please update your API key and token in Claude.app's MCP connection settings."
      [] status = 403 -> "Insufficient permissions. Your Trello token may need additional permissions, or the resource may be private. Please check your Trello settings or update your token in Claude.app."
      [] status = 404 -> "Resource not found"
      [] status = 429 -> "Rate limit exceeded"
      [] status = 500 -> "Trello server error"
      [] OTHER -> "HTTP <status> error"

\* mutant: the codes of 401 and 403 are exchanged
StatusCode_Swapped(status) ==
    CASE status = 401 -> "INSUFFICIENT_PERMISSIONS"
      [] status = 403 -> "INVALID_CREDENTIALS"
      [] status = 404 -> "NOT_FOUND"
      [] status = 429 -> "RATE_LIMIT_EXCEEDED"
      [] status = 500 -> "SERVER_ERROR"
      [] OTHER -> "API_ERROR"

StatusCode(status) ==
    CASE status = 401 -> "INVALID_CREDENTIALS"
      [] status = 403 -> "INSUFFICIENT_PERMISSIONS"
      [] status = 404 -> "NOT_FOUND"
      [] status = 429 -> "RATE_LIMIT_EXCEEDED"
      [] status = 500 -> "SERVER_ERROR"
      [] OTHER -> "API_ERROR"

\* mutant: every TypeError counts as a network failure
handleError_AnyTypeError(error) ==
    IF InstanceOfTypeError(error)
    THEN [message |-> "Network error - unable to reach Trello API",
          code |-> "NETWORK_ERROR"]
    ELSE IF InstanceOfError(error) /\ error.name = "AbortError"
    THEN [message |-> "Request timeout - Trello API did not respond in time",
          code |-> "TIMEOUT_ERROR"]
    ELSE IF error.kind = "Response"
    THEN [message |-> StatusMessage(error.response.status),
          status |-> error.response.status,
          code |-> StatusCode(error.response.status)]
    ELSE [message |-> "Unknown error occurred", code |-> "UNKNOWN_ERROR"]

handleError(error) ==
    IF InstanceOfTypeError(error) /\ error.fetchInMessage
    THEN [message |-> "Network error - unable to reach Trello API",
          code |-> "NETWORK_ERROR"]
    ELSE IF InstanceOfError(error) /\ error.name = "AbortError"
    THEN [message |-> "Request timeout - Trello API did not respond in time",
          code |-> "TIMEOUT_ERROR"]
    ELSE IF error.kind = "Response"
    THEN [message |-> StatusMessage(error.response.status),
          status |-> error.response.status,
          code |-> StatusCode(error.response.status)]
    ELSE [message |-> "Unknown error occurred", code |-> "UNKNOWN_ERROR"]

\* mutant: every Error object is retried
shouldRetry_AnyError(error) ==
    IF InstanceOfError(error) THEN TRUE
    ELSE IF InstanceOfResponse(error)
    THEN error.response.status >= 500 \/ error.response.status = 429
    ELSE FALSE

\* mutant: every HTTP failure is retried
shouldRetry_AnyHttpFailure(error) ==
    IF InstanceOfTypeError(error) /\ error.fetchInMessage THEN TRUE
    ELSE IF InstanceOfError(error) /\ error.name = "AbortError" THEN TRUE
    ELSE IF InstanceOfResponse(error)
    THEN error.response.status >= 400
    ELSE FALSE

shouldRetry(error) ==
    IF InstanceOfTypeError(error) /\ error.fetchInMessage THEN TRUE
    ELSE IF InstanceOfError(error) /\ error.name = "AbortError" THEN TRUE
    ELSE IF InstanceOfResponse(error)
    THEN error.response.status >= 500 \/ error.response.status = 429
    ELSE FALSE

(***************************************************************************)
(* State of one logical call                                               *)
(***************************************************************************)
VARIABLES
    pc,          \* "idle", "fetch" (awaiting fetchWithTimeout), "sleep", "done"
    attempt,     \* the loop counter of makeRequest
    lastError,   \* the value caught most recently, Undefined before
    timerArmed,  \* the abort timer of the attempt in flight is pending
    response,    \* the response received most recently, Undefined before
    result,      \* how the call ended: nothing yet, a return or a throw
    log,         \* history: the fetches issued and the sleeps started, in order
    outcomes     \* history: how each finished attempt ended

vars == <<pc, attempt, lastError, timerArmed, response, result, log, outcomes>>

(***************************************************************************)
(* State around the call: the client, the tool handler, a concurrent call, *)
(* and the argument and result of a helper applied on its own              *)
(***************************************************************************)
VARIABLES
    credentials, \* this.credentials of the TrelloClient
    request,     \* the descriptor makeRequest was called with
    url,         \* const url of makeRequest, built once before the loop
    sent,        \* history: the physical request of each attempt of the call
    args,        \* the arguments the tool handler was called with
    env,         \* process.env.TRELLO_API_KEY and process.env.TRELLO_TOKEN
    hpc,         \* the handler: "idle", "awaiting" the client, "resolved"
    toolResult,  \* what the handler resolved to
    peer,        \* the locals of a second call on the same client
    fnArg,       \* the argument a helper is applied to
    fnResult     \* what the helper gave

requestVars == <<credentials, request, url, sent>>
handlerVars == <<args, env, hpc, toolResult>>
fnVars == <<fnArg, fnResult>>
allVars == <<vars, requestVars, handlerVars, peer, fnVars>>

NoResult == [kind |-> "none"]
Return(data, rateLimit) == [kind |-> "return", data |-> data, rateLimit |-> rateLimit]
Throw(value) == [kind |-> "throw", value |-> value]

FetchEvent == [type |-> "fetch"]
SleepEvent(reason, ms) == [type |-> "sleep", reason |-> reason, ms |-> ms]

ClientInit ==
    /\ pc = "idle"
    /\ attempt = 0
    /\ lastError = Undefined
    /\ timerArmed = FALSE
    /\ response = Undefined
    /\ result = NoResult
    /\ log = <<>>
    /\ outcomes = <<>>

(***************************************************************************)
(* Steps of makeRequest                                                    *)
(***************************************************************************)
\* fetchWithTimeout is entered: the timer is armed and fetch is issued; the
\* timer is cleared when fetch resolves or rejects, before anything else runs
IssueFetch(events) ==
    /\ pc' = "fetch"
    /\ timerArmed' = TRUE
    /\ log' = events \o <<FetchEvent>>

\* mutant: the attempt's timer is left armed
StartSleep_TimerKept(reason, ms) ==
    /\ pc' = "sleep"
    /\ timerArmed' = timerArmed
    /\ log' = Append(log, SleepEvent(reason, ms))

\* await this.sleep(ms)
StartSleep(reason, ms) ==
    /\ pc' = "sleep"
    /\ timerArmed' = FALSE
    /\ log' = Append(log, SleepEvent(reason, ms))

\* the call ends
Finish(r) ==
    /\ pc' = "done"
    /\ timerArmed' = FALSE
    /\ result' = r

\* mutant: the loop is left reporting the rate limit
ExhaustedThrow_RateLimited ==
    Throw([message |-> "Rate limit exceeded", status |-> 429,
           code |-> "RATE_LIMIT_EXCEEDED"])

\* mutant: the loop is left throwing the raw lastError
ExhaustedThrow_Raw == Throw(lastError)

\* the loop is left: throw this.handleError(lastError)
ExhaustedThrow == Throw(handleError(lastError))

\* mutant: the loop admits one attempt more
WithinBudget_OneMore(n) == n <= maxRetries + 1

\* the attempt budget of the for loop
WithinBudget(n) == n <= maxRetries

\* mutant: the last attempt is retried as well
RetriesLeft_Inclusive(n) == n <= maxRetries

\* the guard of the back-off branch of the catch block
RetriesLeft(n) == n < maxRetries

\* the catch block of the loop body
Catch(error) ==
    /\ lastError' = error
    /\ IF InstanceOfResponse(error) /\ error.response.status = 429
       THEN \* continue: the loop counter advances without a sleep
            /\ attempt' = attempt + 1
            /\ IF WithinBudget(attempt + 1)
               THEN IssueFetch(log) /\ UNCHANGED result
               ELSE /\ Finish(Throw(handleError(error)))
                    /\ UNCHANGED log
       ELSE IF RetriesLeft(attempt) /\ shouldRetry(error)
       THEN /\ StartSleep("backoff", calculateBackoffDelay(attempt))
            /\ UNCHANGED <<attempt, result>>
       ELSE /\ Finish(Throw(handleError(error)))
            /\ UNCHANGED <<attempt, log>>

\* a caller starts a logical call: the loop is entered and attempt 1 issued
MakeRequest ==
    /\ pc \in {"idle", "done"}
    /\ attempt' = 1
    /\ lastError' = Undefined
    /\ response' = Undefined
    /\ result' = NoResult
    /\ outcomes' = <<>>
    /\ IssueFetch(<<>>)

\* mutant: the retry-after seconds are passed to sleep as milliseconds
RetryAfterMs_Unscaled(r) == parseInt(StrOr(r.retryAfter, DefaultRetryAfter))

\* the 429 branch: the sleep argument
RetryAfterMs(r) == Times(parseInt(StrOr(r.retryAfter, DefaultRetryAfter)), 1000)

\* fetch resolves with a response before the timer fires
FetchResolves(r) ==
    /\ pc = "fetch"
    /\ response' = r
    /\ outcomes' = Append(outcomes, ResponseError(r))
    /\ IF ~Ok(r)
       THEN IF r.status = 429
            THEN /\ StartSleep("ratelimit", RetryAfterMs(r))
                 /\ UNCHANGED <<attempt, lastError, result>>
            ELSE Catch(ResponseError(r))
       ELSE IF JsonParses(r.body)
            THEN /\ Finish(Return(Json(r.body), extractRateLimitInfo(r)))
                 /\ UNCHANGED <<attempt, lastError, log>>
            ELSE Catch(SyntaxError)

\* fetch rejects before the timer fires
FetchRejects(e) ==
    /\ pc = "fetch"
    /\ outcomes' = Append(outcomes, e)
    /\ UNCHANGED response
    /\ Catch(e)

\* the timer fires first: the request is aborted and fetch rejects
TimerFires ==
    /\ pc = "fetch"
    /\ timerArmed
    /\ outcomes' = Append(outcomes, AbortError)
    /\ UNCHANGED response
    /\ Catch(AbortError)

\* a sleep ends: continue with the next turn of the loop, or leave the loop
SleepDone ==
    /\ pc = "sleep"
    /\ attempt' = attempt + 1
    /\ UNCHANGED <<lastError, response, outcomes>>
    /\ IF WithinBudget(attempt + 1)
       THEN IssueFetch(log) /\ UNCHANGED result
       ELSE Finish(ExhaustedThrow) /\ UNCHANGED log

(***************************************************************************)
(* The request of a call: descriptor, URL and what each attempt sends      *)
(***************************************************************************)
\* a query parameter whose value is undefined
UndefinedParam == "<undefined>"
NoBody == "<no body>"
\* an object without keys
NoQuery == [n \in {} |-> ""]

\* the credential pairs a client is constructed with
CredentialPairs ==
    {[apiKey |-> "key-1", token |-> "token-1"],
     [apiKey |-> "key-2", token |-> "token-2"]}

Endpoint(path, query) == [path |-> path, query |-> query]

\* the argument of makeRequest: endpoint, options.method, options.params,
\* options.body
Descriptor(method, endpoint, params, body) ==
    [method |-> method, endpoint |-> endpoint, params |-> params, body |-> body]

\* filter || 'open'
FilterOr(filter) == IF filter = UndefinedParam THEN "open" ELSE filter

getMyBoards(filter) ==
    Descriptor("GET", Endpoint(<<"/members/me/boards">>, NoQuery),
               [filter |-> FilterOr(filter)], NoBody)

getBoard(boardId, includeDetails) ==
    Descriptor("GET", Endpoint(<<"/boards/", boardId>>, NoQuery),
               IF includeDetails
               THEN [lists |-> "open", cards |-> "open",
                     card_members |-> "true", card_labels |-> "true"]
               ELSE NoQuery,
               NoBody)

\* memberId is any non-empty string, one that carries a query of its own too
getMember(memberId, idQuery, boards) ==
    Descriptor("GET", Endpoint(<<"/members/", memberId>>, idQuery),
               IF boards = UndefinedParam THEN NoQuery ELSE [boards |-> boards],
               NoBody)

createCard(cardData) ==
    Descriptor("POST", Endpoint(<<"/cards">>, NoQuery), NoQuery, cardData)

updateCard(cardId, updates) ==
    Descriptor("PUT", Endpoint(<<"/cards/", cardId>>, NoQuery), NoQuery, updates)

deleteCard(cardId) ==
    Descriptor("DELETE", Endpoint(<<"/cards/", cardId>>, NoQuery), NoQuery, NoBody)

updateLabel(labelId, updates) ==
    Descriptor("PUT", Endpoint(<<"/labels/", labelId>>, NoQuery), updates, NoBody)

\* the calls the public methods of the client make
Descriptors ==
    {getMyBoards(f) : f \in {UndefinedParam, "all", "open", "closed"}}
    \cup {getBoard("b1", d) : d \in BOOLEAN}
    \cup {getMember("me", q, b) :
            q \in {NoQuery, [key |-> "evil"], [token |-> "evil", fields |-> "id"]},
            b \in {UndefinedParam, "open"}}
    \cup {createCard("{\"name\":\"n\"}"), updateCard("c1", "{\"closed\":true}"),
          deleteCard("c1")}
    \cup {updateLabel("l1", u) :
            u \in {[name |-> "n", color |-> "blue"],
                   [name |-> UndefinedParam, color |-> "blue"]}}

\* the one call of the specification of the attempt loop
CoreDescriptors == {getMyBoards(UndefinedParam)}

\* mutant: the parameters are set first, the credentials only where no
\* parameter of that name exists
buildURL_KeepExisting(creds, endpoint, params) ==
    LET defined == {n \in DOMAIN params : params[n] # UndefinedParam}
        given == DOMAIN endpoint.query \cup defined
    IN  [path |-> endpoint.path,
         query |-> [n \in given \cup {"key", "token"} |->
                      IF n \in defined THEN params[n]
                      ELSE IF n \in DOMAIN endpoint.query THEN endpoint.query[n]
                      ELSE IF n = "key" THEN creds.apiKey ELSE creds.token]]

\* new URL(baseURL + endpoint), searchParams.set of key and token, then of
\* every parameter whose value is not undefined
buildURL(creds, endpoint, params) ==
    LET withAuth ==
            [n \in DOMAIN endpoint.query \cup {"key", "token"} |->
                IF n = "key" THEN creds.apiKey
                ELSE IF n = "token" THEN creds.token
                ELSE endpoint.query[n]]
        defined == {n \in DOMAIN params : params[n] # UndefinedParam}
    IN  [path |-> endpoint.path,
         query |-> [n \in DOMAIN withAuth \cup defined |->
                      IF n \in defined THEN params[n] ELSE withAuth[n]]]

\* what one attempt hands to fetch
\* the headers makeRequest sets; no method of the client passes any
RequestHeaders ==
    ("Content-Type" :> "application/json")
    @@ ("User-Agent" :> "TrelloMCPServer/1.0.0 (Node.js 22)")

Physical(u, d) ==
    [url |-> u, method |-> d.method, headers |-> RequestHeaders, body |-> d.body]

RequestInit ==
    /\ credentials \in CredentialPairs
    /\ request = Undefined
    /\ url = Undefined
    /\ sent = <<>>

\* a public method of the client calls makeRequest
CallClient(d) ==
    /\ MakeRequest
    /\ request' = d
    /\ url' = buildURL(credentials, d.endpoint, d.params)
    /\ sent' = <<Physical(url', d)>>
    /\ UNCHANGED credentials

\* a later step of the call: an attempt it issues sends the same url again
\* mutant: a retry is sent without the body
ClientStep_BodyDropped(step) ==
    /\ step
    /\ sent' = IF pc' = "fetch"
               THEN Append(sent, [Physical(url, request) EXCEPT !.body = NoBody])
               ELSE sent
    /\ UNCHANGED <<credentials, request, url>>

ClientStep(step) ==
    /\ step
    /\ sent' = IF pc' = "fetch" THEN Append(sent, Physical(url, request)) ELSE sent
    /\ UNCHANGED <<credentials, request, url>>

(***************************************************************************)
(* The attempt loop on its own                                             *)
(***************************************************************************)
OutsideIdle ==
    /\ args = Undefined
    /\ env = Undefined
    /\ hpc = "idle"
    /\ toolResult = Undefined
    /\ peer = Undefined
    /\ fnArg = Undefined
    /\ fnResult = Undefined

Init ==
    /\ ClientInit
    /\ RequestInit
    /\ credentials = [apiKey |-> "key-1", token |-> "token-1"]
    /\ OutsideIdle

Next ==
    \/ \E d \in CoreDescriptors :
          CallClient(d) /\ UNCHANGED <<handlerVars, peer, fnVars>>
    \/ \E r \in Responses :
          ClientStep(FetchResolves(r)) /\ UNCHANGED <<handlerVars, peer, fnVars>>
    \/ \E e \in FetchErrors :
          ClientStep(FetchRejects(e)) /\ UNCHANGED <<handlerVars, peer, fnVars>>
    \/ ClientStep(TimerFires) /\ UNCHANGED <<handlerVars, peer, fnVars>>
    \/ ClientStep(SleepDone) /\ UNCHANGED <<handlerVars, peer, fnVars>>

Spec == Init /\ [][Next]_allVars

\* a fetch in flight settles: it resolves, rejects, or its timer aborts it
FetchSettles ==
    \/ \E r \in Responses :
          ClientStep(FetchResolves(r)) /\ UNCHANGED <<handlerVars, peer, fnVars>>
    \/ \E e \in FetchErrors :
          ClientStep(FetchRejects(e)) /\ UNCHANGED <<handlerVars, peer, fnVars>>
    \/ ClientStep(TimerFires) /\ UNCHANGED <<handlerVars, peer, fnVars>>

\* the timer of a sleep fires
SleepEnds == ClientStep(SleepDone) /\ UNCHANGED <<handlerVars, peer, fnVars>>

\* the client alone, with every fetch settling and every sleep ending
SpecLive == Spec /\ WF_allVars(FetchSettles) /\ WF_allVars(SleepEnds)

(***************************************************************************)
(* The calls of the public methods, against a backend with few answers     *)
(***************************************************************************)
RequestResponses ==
    {r \in Responses :
        /\ r.status \in {200, 404, 429, 500}
        /\ r.limit = Null /\ r.remaining = Null /\ r.reset = Null
        /\ r.retryAfter \in {Null, <<"2">>}
        /\ r.body \in {"[]", "<html>"}}

InitRequest ==
    /\ ClientInit
    /\ RequestInit
    /\ OutsideIdle

NextRequest ==
    \/ \E d \in Descriptors :
          CallClient(d) /\ UNCHANGED <<handlerVars, peer, fnVars>>
    \/ \E r \in RequestResponses :
          ClientStep(FetchResolves(r)) /\ UNCHANGED <<handlerVars, peer, fnVars>>
    \/ \E e \in FetchErrors :
          ClientStep(FetchRejects(e)) /\ UNCHANGED <<handlerVars, peer, fnVars>>
    \/ ClientStep(TimerFires) /\ UNCHANGED <<handlerVars, peer, fnVars>>
    \/ ClientStep(SleepDone) /\ UNCHANGED <<handlerVars, peer, fnVars>>

SpecRequest == InitRequest /\ [][NextRequest]_allVars

(***************************************************************************)
(* The tool handler handleListBoards on top of the client                  *)
(***************************************************************************)
\* JavaScript values of tool arguments and of environment variables
JsNull == [kind |-> "null"]
JsString(s) == [kind |-> "string", s |-> s]
JsNumber == [kind |-> "number"]

\* a ?? b
Nullish(v) == v = Undefined \/ v = JsNull
Coalesce(a, b) == IF Nullish(a) THEN b ELSE a

\* the property of (args ?? {}) named name
Prop(a, name) == IF Nullish(a) THEN Undefined ELSE a[name]

ApiKeyArgs == {Undefined, JsNull, JsString(""), JsString("key-1"), JsNumber}
TokenArgs == {Undefined, JsString(""), JsString("token-1")}
FilterArgs == {Undefined, JsString("all"), JsString("bogus")}

ObjectArgs ==
    [kind : {"object"}, apiKey : ApiKeyArgs, token : TokenArgs,
     filter : FilterArgs]

\* arguments of another tool (create_card), with properties of its own
CreateCardArgs ==
    [kind : {"object"}, apiKey : {Undefined, JsString("key-1")},
     token : {Undefined, JsString("token-1")}, name : {JsString("n")},
     idList : {JsString("l1")}, desc : {Undefined, JsString("token-1")}]

\* what a caller can pass as args: nothing, null, a string, an object
ArgsValues == {Undefined, JsNull, JsString("list")} \cup ObjectArgs

\* process.env: a variable is unset or a string
Envs ==
    [TRELLO_API_KEY : {Undefined, JsString(""), JsString("env-key")},
     TRELLO_TOKEN : {Undefined, JsString("env-token")}]

\* a function returned value, or threw error
Returned(value) == [ok |-> TRUE, value |-> value]
Threw(error) == [ok |-> FALSE, error |-> error]

ErrorObject(message) == [kind |-> "Error", name |-> "Error", message |-> message]
TypeErrorObject(message) ==
    [kind |-> "TypeError", name |-> "TypeError", message |-> message]
ZodError(issues) == [kind |-> "ZodError", name |-> "ZodError", issues |-> issues]
Issue(path, message) == [path |-> path, message |-> message]

\* z.string().min(1, message) on the property named path
ZodRequiredString(path, v, message) ==
    IF v = Undefined THEN <<Issue(path, "Required")>>
    ELSE IF v.kind # "string"
    THEN <<Issue(path, "Expected string, received " \o v.kind)>>
    ELSE IF v.s = "" THEN <<Issue(path, message)>>
    ELSE <<>>

\* credentialsSchema.parse(data)
credentialsSchema(data) ==
    LET issues ==
            ZodRequiredString("apiKey", data.apiKey, "API key is required")
            \o ZodRequiredString("token", data.token, "Token is required")
    IN  IF issues = <<>>
        THEN Returned([apiKey |-> data.apiKey.s, token |-> data.token.s])
        ELSE Threw(ZodError(issues))

\* the property of an object named name, undefined if it has none
Field(o, name) == IF name \in DOMAIN o THEN o[name] ELSE Undefined

\* mutant: only apiKey is taken out of the arguments
Rest_KeepsToken(a) ==
    LET keys == IF Nullish(a) THEN {} ELSE DOMAIN a \ {"kind", "apiKey"}
    IN  [k \in keys |-> a[k]]

\* const { apiKey, token, ...rest } = args ?? {}: the properties of the
\* arguments other than apiKey and token (kind is the model's tag)
Rest(a) ==
    LET keys == IF Nullish(a) THEN {} ELSE DOMAIN a \ {"kind", "apiKey", "token"}
    IN  [k \in keys |-> a[k]]

\* mutant: the environment default wins over the per-call value
extractCredentials_EnvFirst(a, e) ==
    IF ~Nullish(a) /\ a.kind # "object"
    THEN Threw(ErrorObject("Tool arguments must be an object."))
    ELSE LET parsed ==
                 credentialsSchema(
                     [apiKey |-> Coalesce(e.TRELLO_API_KEY, Prop(a, "apiKey")),
                      token |-> Coalesce(e.TRELLO_TOKEN, Prop(a, "token"))])
         IN  IF parsed.ok
             THEN Returned([credentials |-> parsed.value,
                            params |-> Rest(a)])
             ELSE parsed

extractCredentials(a, e) ==
    IF ~Nullish(a) /\ a.kind # "object"
    THEN Threw(ErrorObject("Tool arguments must be an object."))
    ELSE LET parsed ==
                 credentialsSchema(
                     [apiKey |-> Coalesce(Prop(a, "apiKey"), e.TRELLO_API_KEY),
                      token |-> Coalesce(Prop(a, "token"), e.TRELLO_TOKEN)])
         IN  IF parsed.ok
             THEN Returned([credentials |-> parsed.value,
                            params |-> Rest(a)])
             ELSE parsed

\* mutant: the filter is passed on unchecked
validateListBoards_Unchecked(params) ==
    IF Field(params, "filter") = Undefined
    THEN Returned([filter |-> "open"])
    ELSE Returned([filter |-> Field(params, "filter").s])

\* listBoardsSchema.parse(params)
validateListBoards(params) ==
    IF Field(params, "filter") = Undefined
    THEN Returned([filter |-> "open"])
    ELSE IF Field(params, "filter").kind = "string"
            /\ Field(params, "filter").s \in {"all", "open", "closed"}
    THEN Returned([filter |-> Field(params, "filter").s])
    ELSE Threw(ZodError(<<Issue("filter",
             "Invalid enum value. Expected 'all' | 'open' | 'closed', received '"
             \o Field(params, "filter").s \o "'")>>))

\* issues.join(', ') over the issues rendered as path: message
RECURSIVE JoinIssues(_)
JoinIssues(issues) ==
    IF issues = <<>> THEN <<>>
    ELSE <<Head(issues).path \o ": " \o Head(issues).message>>
         \o (IF Len(issues) > 1 THEN <<", ">> ELSE <<>>)
         \o JoinIssues(Tail(issues))

\* the text is the concatenation of the parts
formatValidationError(error) == <<"Validation error: ">> \o JoinIssues(error.issues)

\* error instanceof z.ZodError, error instanceof Error; a Normalized Error
\* is an object literal of neither class
InstanceOfZodError(error) == "kind" \in DOMAIN error /\ error.kind = "ZodError"
InstanceOfErrorClass(error) ==
    "kind" \in DOMAIN error /\ error.kind \in {"ZodError", "Error", "TypeError"}

Resolved(value) == [kind |-> "resolved", value |-> value]
Rejected(error) == [kind |-> "rejected", error |-> error]

ErrorResult(errorMessage) ==
    Resolved([content |-> <<[type |-> "text",
                             text |-> <<"Error listing boards: ">> \o errorMessage]>>,
              isError |-> TRUE])

\* mutant: a value that is not an Error is thrown on
handleListBoardsCatch_Rethrow(error) ==
    IF InstanceOfZodError(error) THEN ErrorResult(formatValidationError(error))
    ELSE IF InstanceOfErrorClass(error) THEN ErrorResult(<<error.message>>)
    ELSE Rejected(error)

\* the catch block of handleListBoards
handleListBoardsCatch(error) ==
    ErrorResult(IF InstanceOfZodError(error) THEN formatValidationError(error)
                ELSE IF InstanceOfErrorClass(error) THEN <<error.message>>
                ELSE <<"Unknown error occurred">>)

IsArray(data) == "array" \in DOMAIN data

\* the try block after the await: the result text, or the TypeError of
\* boards.map on a value that is not an array
handleListBoardsReturn(filter, r) ==
    IF IsArray(r.data)
    THEN LET summary == [found |-> Len(r.data.array), filter |-> filter]
             boardList == r.data.array
         IN  Returned([content |-> <<[type |-> "text",
                 text |-> IF r.rateLimit = Undefined
                          THEN [summary |-> summary, boards |-> boardList]
                          ELSE [summary |-> summary, boards |-> boardList,
                                rateLimit |-> r.rateLimit]]>>])
    ELSE Threw(TypeErrorObject("boards.map is not a function"))

\* the backend's answers to a handler's request
HandlerResponses ==
    [status : {200}, retryAfter : {Null}, limit : {Null, <<"2">>},
     remaining : {Null}, reset : {Null}, body : Bodies]
    \cup [status : {401, 404, 429, 500}, retryAfter : {Null}, limit : {Null},
          remaining : {Null}, reset : {Null}, body : {"<html>"}]

InitHandler ==
    /\ ClientInit
    /\ credentials = Undefined
    /\ request = Undefined
    /\ url = Undefined
    /\ sent = <<>>
    /\ args = Undefined
    /\ env \in Envs
    /\ hpc = "idle"
    /\ toolResult = Undefined
    /\ peer = Undefined
    /\ fnArg = Undefined
    /\ fnResult = Undefined

\* new TrelloClient(creds) and the call of one of its methods
ConstructAndCall(creds, d) ==
    /\ MakeRequest
    /\ credentials' = creds
    /\ request' = d
    /\ url' = buildURL(creds, d.endpoint, d.params)
    /\ sent' = <<Physical(url', d)>>

\* handleListBoards(a) up to its await, or to its end if it fails before
HandleListBoards(a) ==
    /\ hpc = "idle"
    /\ args' = a
    /\ LET extracted == extractCredentials(a, env)
           validated == validateListBoards(extracted.value.params)
       IN  IF ~extracted.ok
           THEN /\ toolResult' = handleListBoardsCatch(extracted.error)
                /\ hpc' = "settled"
                /\ UNCHANGED <<vars, requestVars>>
           ELSE IF ~validated.ok
           THEN /\ toolResult' = handleListBoardsCatch(validated.error)
                /\ hpc' = "settled"
                /\ UNCHANGED <<vars, requestVars>>
           ELSE /\ ConstructAndCall(extracted.value.credentials,
                                    getMyBoards(validated.value.filter))
                /\ hpc' = "awaiting"
                /\ UNCHANGED toolResult
    /\ UNCHANGED <<env, peer, fnVars>>

\* handleListBoards after its await: client.getMyBoards has settled
HandlerResumes ==
    /\ hpc = "awaiting"
    /\ pc = "done"
    /\ hpc' = "settled"
    /\ toolResult' =
          IF result.kind = "throw"
          THEN handleListBoardsCatch(result.value)
          ELSE LET returned ==
                       handleListBoardsReturn(request.params.filter, result)
               IN  IF returned.ok
                   THEN Resolved(returned.value)
                   ELSE handleListBoardsCatch(returned.error)
    /\ UNCHANGED <<vars, requestVars, args, env, peer, fnVars>>

NextHandler ==
    \/ \E a \in ArgsValues : HandleListBoards(a)
    \/ HandlerResumes
    \/ \E r \in HandlerResponses :
          ClientStep(FetchResolves(r)) /\ UNCHANGED <<handlerVars, peer, fnVars>>
    \/ \E e \in FetchErrors :
          ClientStep(FetchRejects(e)) /\ UNCHANGED <<handlerVars, peer, fnVars>>
    \/ ClientStep(TimerFires) /\ UNCHANGED <<handlerVars, peer, fnVars>>
    \/ ClientStep(SleepDone) /\ UNCHANGED <<handlerVars, peer, fnVars>>

SpecHandler == InitHandler /\ [][NextHandler]_allVars

(***************************************************************************)
(* Two logical calls on one client                                         *)
(*                                                                         *)
(* The second call's locals are the record peer.  Its steps are the steps  *)
(* of makeRequest written as functions of a call's locals; the same        *)
(* functions give the run of a call that is alone on the client.           *)
(***************************************************************************)
IdleCall ==
    [pc |-> "idle", attempt |-> 0, lastError |-> Undefined,
     timerArmed |-> FALSE, response |-> Undefined, result |-> NoResult,
     log |-> <<>>, outcomes |-> <<>>]

\* makeRequest is entered and attempt 1 issued
Started ==
    [IdleCall EXCEPT !.pc = "fetch", !.attempt = 1, !.timerArmed = TRUE,
                     !.log = <<FetchEvent>>]

Fetching(c) ==
    [c EXCEPT !.pc = "fetch", !.timerArmed = TRUE, !.log = Append(@, FetchEvent)]

Sleeping(c, reason, ms) ==
    [c EXCEPT !.pc = "sleep", !.timerArmed = FALSE,
              !.log = Append(@, SleepEvent(reason, ms))]

Finished(c, r) ==
    [c EXCEPT !.pc = "done", !.timerArmed = FALSE, !.result = r]

\* the catch block of the loop body
Caught(c, error) ==
    LET kept == [c EXCEPT !.lastError = error]
        next == [kept EXCEPT !.attempt = @ + 1]
    IN  IF InstanceOfResponse(error) /\ error.response.status = 429
        THEN IF WithinBudget(c.attempt + 1)
             THEN Fetching(next)
             ELSE Finished(next, Throw(handleError(error)))
        ELSE IF RetriesLeft(c.attempt) /\ shouldRetry(error)
        THEN Sleeping(kept, "backoff", calculateBackoffDelay(c.attempt))
        ELSE Finished(kept, Throw(handleError(error)))

\* fetch resolves with r
Resolve(c, r) ==
    LET got == [c EXCEPT !.response = r,
                         !.outcomes = Append(@, ResponseError(r))]
    IN  IF ~Ok(r)
        THEN IF r.status = 429
             THEN Sleeping(got, "ratelimit", RetryAfterMs(r))
             ELSE Caught(got, ResponseError(r))
        ELSE IF JsonParses(r.body)
             THEN Finished(got, Return(Json(r.body), extractRateLimitInfo(r)))
             ELSE Caught(got, SyntaxError)

\* fetch rejects with e, the abort by the timer included
Reject(c, e) == Caught([c EXCEPT !.outcomes = Append(@, e)], e)

\* a sleep ends
Wake(c) ==
    LET next == [c EXCEPT !.attempt = @ + 1]
    IN  IF WithinBudget(c.attempt + 1)
        THEN Fetching(next)
        ELSE Finished(next, Throw(handleError(c.lastError)))

\* the locals of the first call, as a record
Self ==
    [pc |-> pc, attempt |-> attempt, lastError |-> lastError,
     timerArmed |-> timerArmed, response |-> response, result |-> result,
     log |-> log, outcomes |-> outcomes]

\* mutant: lastError is a field of the client, shared by its calls
PeerLocals_SharedLastError == [peer EXCEPT !.lastError = lastError]

\* the locals the second call reads and writes: its own
PeerLocals == peer

\* the backend's answers when two calls are in flight
ConcResponses ==
    [status : {200, 404, 429, 500}, retryAfter : {Null}, limit : {Null},
     remaining : {Null}, reset : {Null}, body : {"[]"}]

ConcErrors == {NetworkError}

InitConc ==
    /\ ClientInit
    /\ RequestInit
    /\ credentials = [apiKey |-> "key-1", token |-> "token-1"]
    /\ args = Undefined
    /\ env = Undefined
    /\ hpc = "idle"
    /\ toolResult = Undefined
    /\ peer = IdleCall
    /\ fnArg = Undefined
    /\ fnResult = Undefined

PeerFrame == UNCHANGED <<vars, requestVars, handlerVars, fnVars>>

PeerMakeRequest ==
    /\ peer.pc \in {"idle", "done"}
    /\ peer' = Started
    /\ PeerFrame

PeerFetchResolves(r) ==
    /\ peer.pc = "fetch"
    /\ peer' = Resolve(PeerLocals, r)
    /\ PeerFrame

PeerFetchRejects(e) ==
    /\ peer.pc = "fetch"
    /\ peer' = Reject(PeerLocals, e)
    /\ PeerFrame

PeerTimerFires ==
    /\ peer.pc = "fetch"
    /\ peer.timerArmed
    /\ peer' = Reject(PeerLocals, AbortError)
    /\ PeerFrame

PeerSleepDone ==
    /\ peer.pc = "sleep"
    /\ peer' = Wake(PeerLocals)
    /\ PeerFrame

NextConc ==
    \/ \E d \in CoreDescriptors :
          CallClient(d) /\ UNCHANGED <<handlerVars, peer, fnVars>>
    \/ \E r \in ConcResponses :
          ClientStep(FetchResolves(r)) /\ UNCHANGED <<handlerVars, peer, fnVars>>
    \/ \E e \in ConcErrors :
          ClientStep(FetchRejects(e)) /\ UNCHANGED <<handlerVars, peer, fnVars>>
    \/ ClientStep(TimerFires) /\ UNCHANGED <<handlerVars, peer, fnVars>>
    \/ ClientStep(SleepDone) /\ UNCHANGED <<handlerVars, peer, fnVars>>
    \/ PeerMakeRequest
    \/ \E r \in ConcResponses : PeerFetchResolves(r)
    \/ \E e \in ConcErrors : PeerFetchRejects(e)
    \/ PeerTimerFires
    \/ PeerSleepDone

SpecConc == InitConc /\ [][NextConc]_allVars

(***************************************************************************)
(* makeRequest when a logger or insights call throws                       *)
(*                                                                         *)
(* The calls that emit an attempt's record are statements of the try block *)
(* (logger.warn and insights.trackEvent on a 429, logger.info and          *)
(* insights.trackDependency on success) and of the catch block             *)
(* (logger.debug, insights.trackEvent, logger.error,                       *)
(* insights.trackDependency, insights.trackException); none is guarded.    *)
(***************************************************************************)
\* what a failing logger or insights call throws
EmissionError == [kind |-> "Error", name |-> "Error", fetchInMessage |-> FALSE]

\* the catch block when one of its own emitting calls throws: the error
\* leaves makeRequest as it is
CatchEmissionThrows(error) ==
    /\ lastError' = error
    /\ Finish(Throw(EmissionError))
    /\ UNCHANGED <<attempt, log>>

\* fetch resolves and the call that emits the attempt's record throws
FetchResolvesEmissionThrows(r) ==
    /\ pc = "fetch"
    /\ response' = r
    /\ outcomes' = Append(outcomes, ResponseError(r))
    /\ IF r.status = 429 \/ (Ok(r) /\ JsonParses(r.body))
       THEN \* thrown inside the try block: caught as the attempt's failure
            Catch(EmissionError)
       ELSE CatchEmissionThrows(IF Ok(r) THEN SyntaxError ELSE ResponseError(r))

\* fetch rejects and the call that emits the attempt's record throws
FetchRejectsEmissionThrows(e) ==
    /\ pc = "fetch"
    /\ outcomes' = Append(outcomes, e)
    /\ UNCHANGED response
    /\ CatchEmissionThrows(e)

\* the timer fires and the call that emits the attempt's record throws
TimerFiresEmissionThrows ==
    /\ pc = "fetch"
    /\ timerArmed
    /\ outcomes' = Append(outcomes, AbortError)
    /\ UNCHANGED response
    /\ CatchEmissionThrows(AbortError)

NextEmission ==
    \/ \E d \in CoreDescriptors :
          CallClient(d) /\ UNCHANGED <<handlerVars, peer, fnVars>>
    \/ \E r \in Responses :
          ClientStep(FetchResolves(r)) /\ UNCHANGED <<handlerVars, peer, fnVars>>
    \/ \E e \in FetchErrors :
          ClientStep(FetchRejects(e)) /\ UNCHANGED <<handlerVars, peer, fnVars>>
    \/ ClientStep(TimerFires) /\ UNCHANGED <<handlerVars, peer, fnVars>>
    \/ ClientStep(SleepDone) /\ UNCHANGED <<handlerVars, peer, fnVars>>
    \/ \E r \in Responses :
          ClientStep(FetchResolvesEmissionThrows(r))
          /\ UNCHANGED <<handlerVars, peer, fnVars>>
    \/ \E e \in FetchErrors :
          ClientStep(FetchRejectsEmissionThrows(e))
          /\ UNCHANGED <<handlerVars, peer, fnVars>>
    \/ ClientStep(TimerFiresEmissionThrows)
       /\ UNCHANGED <<handlerVars, peer, fnVars>>

SpecEmission == Init /\ [][NextEmission]_allVars

(***************************************************************************)
(* The helpers applied on their own                                        *)
(***************************************************************************)
NotApplied == [applied |-> FALSE]
Applied(value) == [applied |-> TRUE, value |-> value]
HelperCall(fn, arg) == [fn |-> fn, arg |-> arg]

\* the three rate-limit headers of a response, each over every value
RateLimitHeaders ==
    [limit : HeaderGets, remaining : HeaderGets, reset : HeaderGets]

\* the values the catch block of makeRequest can hold, undefined included
ThrownValues ==
    {ResponseError(r) : r \in RateLimitedResponses \cup ErrorResponses}
    \cup {NetworkError, OtherTypeError, AbortError, SyntaxError, OtherValue,
          Undefined}

HelperCalls ==
    {HelperCall("extractRateLimitInfo", h) : h \in RateLimitHeaders}
    \cup {HelperCall("shouldRetry", e) : e \in ThrownValues}
    \cup {HelperCall("handleError", e) : e \in ThrownValues}
    \cup {HelperCall("calculateBackoffDelay", [attempt |-> n]) :
              n \in 1..MaxBackoffAttempt}
    \cup {HelperCall("extractCredentials", [args |-> a, env |-> e]) :
              a \in ArgsValues \cup CreateCardArgs, e \in Envs}

InitHelpers ==
    /\ ClientInit
    /\ RequestInit
    /\ credentials = [apiKey |-> "key-1", token |-> "token-1"]
    /\ args = Undefined
    /\ env = Undefined
    /\ hpc = "idle"
    /\ toolResult = Undefined
    /\ peer = Undefined
    /\ fnArg \in HelperCalls
    /\ fnResult = NotApplied

ApplyExtractRateLimitInfo ==
    /\ fnArg.fn = "extractRateLimitInfo"
    /\ fnResult = NotApplied
    /\ fnResult' = Applied(extractRateLimitInfo(fnArg.arg))
    /\ UNCHANGED <<vars, requestVars, handlerVars, peer, fnArg>>

ApplyShouldRetry ==
    /\ fnArg.fn = "shouldRetry"
    /\ fnResult = NotApplied
    /\ fnResult' = Applied(shouldRetry(fnArg.arg))
    /\ UNCHANGED <<vars, requestVars, handlerVars, peer, fnArg>>

ApplyHandleError ==
    /\ fnArg.fn = "handleError"
    /\ fnResult = NotApplied
    /\ fnResult' = Applied(handleError(fnArg.arg))
    /\ UNCHANGED <<vars, requestVars, handlerVars, peer, fnArg>>

ApplyCalculateBackoffDelay ==
    /\ fnArg.fn = "calculateBackoffDelay"
    /\ fnResult = NotApplied
    /\ fnResult' = Applied(calculateBackoffDelay(fnArg.arg.attempt))
    /\ UNCHANGED <<vars, requestVars, handlerVars, peer, fnArg>>

ApplyExtractCredentials ==
    /\ fnArg.fn = "extractCredentials"
    /\ fnResult = NotApplied
    /\ fnResult' = Applied(extractCredentials(fnArg.arg.args, fnArg.arg.env))
    /\ UNCHANGED <<vars, requestVars, handlerVars, peer, fnArg>>

NextHelpers ==
    \/ ApplyExtractRateLimitInfo
    \/ ApplyShouldRetry
    \/ ApplyHandleError
    \/ ApplyCalculateBackoffDelay
    \/ ApplyExtractCredentials

SpecHelpers == InitHelpers /\ [][NextHelpers]_allVars

(***************************************************************************)
(* Vocabulary of the properties                                            *)
(***************************************************************************)
ErrorCodes ==
    {"NETWORK_ERROR", "TIMEOUT_ERROR", "INVALID_CREDENTIALS",
     "INSUFFICIENT_PERMISSIONS", "NOT_FOUND", "RATE_LIMIT_EXCEEDED",
     "SERVER_ERROR", "API_ERROR", "UNKNOWN_ERROR"}

\* a Normalized Error: message and code, optionally status, and nothing raw
IsNormalizedError(v) ==
    /\ {"message", "code"} \subseteq DOMAIN v
    /\ DOMAIN v \subseteq {"message", "code", "status"}
    /\ v.code \in ErrorCodes

HasStatus(v, s) == "status" \in DOMAIN v /\ v.status = s
HasNoStatus(v) == "status" \notin DOMAIN v

IsHttp(o) == o.kind = "Response"
Is429(o) == IsHttp(o) /\ o.response.status = 429
Is2xx(o) == IsHttp(o) /\ o.response.status \in 200..299
Is5xx(o) == IsHttp(o) /\ o.response.status >= 500
\* an HTTP error status that is neither 429 nor 5xx
IsTerminalStatus(o) == IsHttp(o) /\ ~Is2xx(o) /\ ~Is429(o) /\ ~Is5xx(o)
\* a retryable failure other than 429: 5xx, network failure, timeout
IsTransient(o) == Is5xx(o) \/ o = NetworkError \/ o = AbortError

NumFetches == Cardinality({j \in DOMAIN log : log[j].type = "fetch"})
NumSleeps == Cardinality({j \in DOMAIN log : log[j].type = "sleep"})
LastOutcome == outcomes[Len(outcomes)]
Failed == pc = "done" /\ result.kind = "throw"
Succeeded == pc = "done" /\ result.kind = "return"

\* the position in log of the i-th fetch
FetchIndex(i) ==
    CHOOSE j \in DOMAIN log :
        /\ log[j].type = "fetch"
        /\ Cardinality({k \in 1..j : log[k].type = "fetch"}) = i

\* the log of nf attempts separated by back-off sleeps, ns sleeps in all
BackoffLog(nf, ns) ==
    [j \in 1..(nf + ns) |->
        IF j % 2 = 1
        THEN FetchEvent
        ELSE SleepEvent("backoff", Min(baseDelay * 2^((j \div 2) - 1), maxDelay))]

\* a header value that is an integer
IsIntegerHeader(h) ==
    h # Null /\ h # <<>> /\ \A j \in DOMAIN h : h[j] \in {"0", "2"}

(***************************************************************************)
(* C1: an attempt answered with an HTTP error status s that is neither 429 *)
(* nor >= 500 is the last one of its call: the call fails at once with a   *)
(* Normalized Error of status s and no sleep follows; when it is the first *)
(* response, the call made exactly one attempt and never slept.            *)
(***************************************************************************)
C1_NoRetryOnTerminalStatus ==
    \A i \in DOMAIN outcomes :
        IsTerminalStatus(outcomes[i]) =>
            /\ i = Len(outcomes)
            /\ Failed
            /\ IsNormalizedError(result.value)
            /\ HasStatus(result.value, outcomes[i].response.status)
            /\ NumFetches = i
            /\ log[Len(log)] = FetchEvent
            /\ (i = 1 => log = <<FetchEvent>>)

C1_Witness ==
    /\ Failed
    /\ Len(outcomes) = 1
    /\ IsHttp(outcomes[1]) /\ outcomes[1].response.status = 400
    /\ NumFetches = 1

(***************************************************************************)
(* C2 (as claimed): after every attempt answered with 429 the call sleeps  *)
(* and then issues another attempt, whatever the number of attempts made.  *)
(***************************************************************************)
C2_AlwaysAnotherAttempt ==
    \A i \in DOMAIN outcomes :
        Is429(outcomes[i]) =>
            \/ pc = "sleep" /\ i = Len(outcomes)
            \/ NumFetches > i

(***************************************************************************)
(* C2 (amended): after every attempt answered with 429 the call sleeps,    *)
(* for retry-after seconds when the header is an integer; after the sleep  *)
(* it issues another attempt if the 429 was not on the last of the         *)
(* maxRetries attempt slots, and otherwise fails without another attempt,  *)
(* so a backend that always answers 429 is tried maxRetries times.         *)
(***************************************************************************)
C2_RateLimitRetryWithinBudget ==
    \A i \in DOMAIN outcomes :
        Is429(outcomes[i]) =>
            LET h == outcomes[i].response.retryAfter
                sleep == log[FetchIndex(i) + 1]
            IN  /\ Len(log) > FetchIndex(i)
                /\ sleep.type = "sleep" /\ sleep.reason = "ratelimit"
                /\ IsIntegerHeader(h) => sleep.ms = parseInt(h) * 1000
                /\ IF i < maxRetries
                   THEN \/ pc = "sleep" /\ i = Len(outcomes)
                        \/ NumFetches > i
                   ELSE /\ i = Len(outcomes)
                        /\ NumFetches = maxRetries
                        /\ pc = "sleep" \/ Failed

C2_Witness ==
    /\ Failed
    /\ Len(outcomes) = maxRetries
    /\ \A i \in DOMAIN outcomes : Is429(outcomes[i])
    /\ NumSleeps = maxRetries

(***************************************************************************)
(* C3: while every attempt of a call fails with a retryable failure other  *)
(* than 429 (5xx, network failure, timeout), the call makes maxRetries     *)
(* attempts separated by maxRetries-1 back-off sleeps, does not sleep      *)
(* after the last one and then fails with one Normalized Error, which is   *)
(* SERVER_ERROR with status 500 when every response was 500.               *)
(***************************************************************************)
C3_TransientFailuresExhaustBudget ==
    (outcomes # <<>> /\ \A i \in DOMAIN outcomes : IsTransient(outcomes[i])) =>
        LET n == Len(outcomes) IN
        IF n < maxRetries
        THEN \/ pc = "sleep" /\ log = BackoffLog(n, n)
             \/ pc = "fetch" /\ log = BackoffLog(n + 1, n)
        ELSE /\ n = maxRetries
             /\ Failed
             /\ log = BackoffLog(maxRetries, maxRetries - 1)
             /\ NumFetches = maxRetries /\ NumSleeps = maxRetries - 1
             /\ IsNormalizedError(result.value)
             /\ (\A i \in DOMAIN outcomes :
                    IsHttp(outcomes[i]) /\ outcomes[i].response.status = 500)
                => /\ result.value.code = "SERVER_ERROR"
                   /\ HasStatus(result.value, 500)

C3_Witness ==
    /\ Failed
    /\ Len(outcomes) = maxRetries
    /\ \A i \in DOMAIN outcomes :
          IsHttp(outcomes[i]) /\ outcomes[i].response.status = 500
    /\ NumSleeps = maxRetries - 1

(***************************************************************************)
(* C4 (as claimed): a call whose every attempt is answered with 429 until  *)
(* the attempt budget is exhausted fails with RATE_LIMIT_EXCEEDED, message *)
(* "Rate limit exceeded" and status 429.                                   *)
(***************************************************************************)
C4_RateLimitExceededWhenExhausted ==
    (/\ pc = "done"
     /\ Len(outcomes) = maxRetries
     /\ \A i \in DOMAIN outcomes : Is429(outcomes[i])) =>
        /\ result.kind = "throw"
        /\ result.value.code = "RATE_LIMIT_EXCEEDED"
        /\ result.value.message = "Rate limit exceeded"
        /\ HasStatus(result.value, 429)

(***************************************************************************)
(* C5 (as claimed): a call that finally fails on a response of status      *)
(* s >= 500 fails with code SERVER_ERROR and status s.                     *)
(***************************************************************************)
C5_ServerErrorForEvery5xx ==
    (Failed /\ outcomes # <<>> /\ Is5xx(LastOutcome)) =>
        /\ result.value.code = "SERVER_ERROR"
        /\ HasStatus(result.value, LastOutcome.response.status)

(***************************************************************************)
(* C6: a call has ended exactly when it has its one result, and the value  *)
(* a failed call throws is a Normalized Error with a code of the fixed     *)
(* enumeration, never the raw exception or Response, whatever the number   *)
(* of attempts and the mix of their outcomes.                              *)
(***************************************************************************)
C6_OneNormalizedErrorPerFailedCall ==
    /\ (pc = "done") <=> (result.kind # "none")
    /\ result.kind = "throw" => IsNormalizedError(result.value)

C6_Witness ==
    /\ Failed
    /\ Len(outcomes) = maxRetries
    /\ Is429(outcomes[1])
    /\ outcomes[2] = AbortError
    /\ outcomes[3] = NetworkError
    /\ IsNormalizedError(result.value)

(***************************************************************************)
(* C7: a response with status 401, 403 or 404 ends the call at once with   *)
(* INVALID_CREDENTIALS, INSUFFICIENT_PERMISSIONS or NOT_FOUND ("Resource   *)
(* not found") and with that status; as first response it leaves the call  *)
(* with exactly one attempt.                                               *)
(***************************************************************************)
C7_CodeOf(status) ==
    CASE status = 401 -> "INVALID_CREDENTIALS"
      [] status = 403 -> "INSUFFICIENT_PERMISSIONS"
      [] status = 404 -> "NOT_FOUND"

C7_AuthAndNotFoundErrors ==
    \A i \in DOMAIN outcomes :
        (IsHttp(outcomes[i]) /\ outcomes[i].response.status \in {401, 403, 404}) =>
            LET status == outcomes[i].response.status IN
            /\ i = Len(outcomes)
            /\ Failed
            /\ result.value.code = C7_CodeOf(status)
            /\ HasStatus(result.value, status)
            /\ status = 404 => result.value.message = "Resource not found"
            /\ NumFetches = i
            /\ (i = 1 => log = <<FetchEvent>>)

C7_Witness ==
    /\ Failed
    /\ Len(outcomes) = 1
    /\ IsHttp(outcomes[1]) /\ outcomes[1].response.status = 403
    /\ result.value.code = "INSUFFICIENT_PERMISSIONS"
    /\ NumFetches = 1

(***************************************************************************)
(* C8: when the first k attempts of a call (k < maxRetries) fail with      *)
(* retryable non-429 failures and attempt k+1 receives a 2xx response, the *)
(* call has made exactly k+1 attempts and k back-off sleeps and is over    *)
(* with that response: no further attempt or sleep, and the response's     *)
(* parsed body returned as data.                                           *)
(***************************************************************************)
C8_SuccessAfterTransientFailures ==
    (/\ outcomes # <<>>
     /\ Is2xx(LastOutcome)
     /\ \A i \in 1..(Len(outcomes) - 1) : IsTransient(outcomes[i])) =>
        LET k == Len(outcomes) - 1 IN
        /\ k < maxRetries
        /\ pc = "done"
        /\ log = BackoffLog(k + 1, k)
        /\ NumFetches = k + 1 /\ NumSleeps = k
        /\ JsonParses(LastOutcome.response.body) =>
              /\ result.kind = "return"
              /\ result.data = Json(LastOutcome.response.body)

C8_Witness ==
    /\ Succeeded
    /\ Len(outcomes) = maxRetries
    /\ outcomes[1] = AbortError
    /\ outcomes[2] = AbortError
    /\ Is2xx(outcomes[3])
    /\ NumSleeps = 2

(***************************************************************************)
(* C9: a first response 429 with retry-after r followed by a 2xx response  *)
(* gives the successful payload after exactly 2 attempts and exactly one   *)
(* sleep, of r seconds and not a back-off; the 429 used one attempt slot.  *)
(***************************************************************************)
C9_RateLimitThenSuccess ==
    (/\ Len(outcomes) = 2
     /\ Is429(outcomes[1])
     /\ IsIntegerHeader(outcomes[1].response.retryAfter)
     /\ Is2xx(outcomes[2])
     /\ JsonParses(outcomes[2].response.body)) =>
        /\ Succeeded
        /\ result.data = Json(outcomes[2].response.body)
        /\ log = <<FetchEvent,
                   SleepEvent("ratelimit",
                              parseInt(outcomes[1].response.retryAfter) * 1000),
                   FetchEvent>>
        /\ attempt = 2

C9_Witness ==
    /\ Succeeded
    /\ Len(outcomes) = 2
    /\ Is429(outcomes[1])
    /\ outcomes[1].response.retryAfter = <<"2">>
    /\ Is2xx(outcomes[2])
    /\ log = <<FetchEvent, SleepEvent("ratelimit", 2000), FetchEvent>>

(***************************************************************************)
(* C10 (as claimed): the result of a successful call has a rateLimit       *)
(* snapshot if and only if the successful response carried the             *)
(* x-rate-limit-api-key-limit header.                                      *)
(***************************************************************************)
C10_SnapshotIffHeaderPresent ==
    Succeeded => ((result.rateLimit # Undefined) <=> (response.limit # Null))

(***************************************************************************)
(* C10 (amended): the result of a successful call has a rateLimit snapshot *)
(* if and only if the successful response carried the limit header with a  *)
(* non-empty value; otherwise rateLimit is undefined.                      *)
(***************************************************************************)
C10_SnapshotIffHeaderNonEmpty ==
    Succeeded =>
        /\ response = LastOutcome.response
        /\ IF response.limit # Null /\ response.limit # <<>>
           THEN DOMAIN result.rateLimit = {"limit", "remaining", "resetTime"}
           ELSE result.rateLimit = Undefined

C10_Witness ==
    /\ Succeeded
    /\ response.limit = <<"2">>
    /\ result.rateLimit # Undefined
    /\ result.rateLimit.limit = 2

C11_FieldOf(header, field) ==
    IF IsIntegerHeader(header) THEN field = parseInt(header) ELSE field = 0

C11_SnapshotFieldsFromHeaders ==
    (/\ fnArg.fn = "extractRateLimitInfo"
     /\ fnResult.applied
     /\ fnArg.arg.limit # Null /\ fnArg.arg.limit # <<>>) =>
        /\ fnResult.value # Undefined
        /\ IsIntegerHeader(fnArg.arg.limit) =>
              fnResult.value.limit = parseInt(fnArg.arg.limit)
        /\ C11_FieldOf(fnArg.arg.remaining, fnResult.value.remaining)
        /\ C11_FieldOf(fnArg.arg.reset, fnResult.value.resetTime)

(***************************************************************************)
(* C18: a failure that is not an HTTP response is normalized without a     *)
(* status: a network failure of fetch gives NETWORK_ERROR, an abort by the *)
(* attempt's timer gives TIMEOUT_ERROR, any other thrown value gives       *)
(* UNKNOWN_ERROR with message "Unknown error occurred"; an unclassified    *)
(* failure ends the call at once, so it is the only attempt when it is the *)
(* first.                                                                  *)
(***************************************************************************)
\* the value the catch block receives for the i-th attempt's failure
C18_Thrown(i) ==
    IF Is2xx(outcomes[i]) THEN SyntaxError ELSE outcomes[i]

C18_Unclassified(i) ==
    \/ outcomes[i] \in {OtherTypeError, OtherValue}
    \/ Is2xx(outcomes[i]) /\ ~JsonParses(outcomes[i].response.body)

C18_NonHttpFailures ==
    /\ (Failed /\ outcomes # <<>> /\ ~IsHttp(C18_Thrown(Len(outcomes)))) =>
          /\ HasNoStatus(result.value)
          /\ LastOutcome = NetworkError => result.value.code = "NETWORK_ERROR"
          /\ LastOutcome = AbortError => result.value.code = "TIMEOUT_ERROR"
          /\ C18_Unclassified(Len(outcomes)) =>
                /\ result.value.code = "UNKNOWN_ERROR"
                /\ result.value.message = "Unknown error occurred"
    /\ \A i \in DOMAIN outcomes :
          C18_Unclassified(i) =>
              /\ i = Len(outcomes)
              /\ Failed
              /\ NumFetches = i
              /\ (i = 1 => log = <<FetchEvent>>)

C18_Witness ==
    /\ Failed
    /\ outcomes = <<OtherValue>>
    /\ log = <<FetchEvent>>
    /\ result.value = [message |-> "Unknown error occurred",
                       code |-> "UNKNOWN_ERROR"]

(***************************************************************************)
(* C19 (as claimed): an attempt answered with 429 does not count toward    *)
(* the back-off: the delay of every back-off sleep is computed from the    *)
(* number of attempts so far that were not answered with 429.              *)
(***************************************************************************)
C19_FetchesBefore(j) == Cardinality({k \in 1..j : log[k].type = "fetch"})

C19_Not429Before(j) ==
    Cardinality({i \in 1..C19_FetchesBefore(j) : ~Is429(outcomes[i])})

C19_BackoffIgnores429 ==
    \A j \in DOMAIN log :
        (log[j].type = "sleep" /\ log[j].reason = "backoff") =>
            log[j].ms = Min(baseDelay * 2^(C19_Not429Before(j) - 1), maxDelay)

(***************************************************************************)
(* C19 (amended): an attempt answered with 429 counts toward the back-off: *)
(* the delay of every back-off sleep is computed from the number of all    *)
(* attempts so far, the ones answered with 429 included; for 429, 500 the  *)
(* sleep after the 500 is 2 * baseDelay.                                   *)
(***************************************************************************)
C19_BackoffCounts429 ==
    \A j \in DOMAIN log :
        (log[j].type = "sleep" /\ log[j].reason = "backoff") =>
            log[j].ms = Min(baseDelay * 2^(C19_FetchesBefore(j) - 1), maxDelay)

C19_Witness ==
    /\ pc = "sleep"
    /\ Len(outcomes) = 2
    /\ Is429(outcomes[1])
    /\ IsHttp(outcomes[2]) /\ outcomes[2].response.status = 500
    /\ log[4] = SleepEvent("backoff", 2 * baseDelay)

(***************************************************************************)
(* C20: shouldRetry answers true exactly for a network failure of fetch,   *)
(* an abort of the attempt's deadline, and an HTTP failure with status     *)
(* >= 500 or status 429; every other status and every other thrown value   *)
(* is terminal.                                                            *)
(***************************************************************************)
C20_Retryable(e) ==
    \/ e = NetworkError
    \/ e = AbortError
    \/ Is5xx(e)
    \/ Is429(e)

C20_RetryableIff ==
    (fnArg.fn = "shouldRetry" /\ fnResult.applied) =>
        (fnResult.value <=> C20_Retryable(fnArg.arg))

C20_Witness ==
    /\ fnArg.fn = "shouldRetry"
    /\ fnResult.applied
    /\ IsHttp(fnArg.arg) /\ fnArg.arg.response.status = 404
    /\ fnResult.value = FALSE

(***************************************************************************)
(* Vocabulary of the handler's properties                                  *)
(***************************************************************************)
HandlerText == toolResult.value.content[1].text
HandlerFailed == "isError" \in DOMAIN toolResult.value /\ toolResult.value.isError
ClientFailed == pc = "done" /\ result.kind = "throw"
ClientUntouched ==
    pc = "idle" /\ NumFetches = 0 /\ sent = <<>> /\ credentials = Undefined

ArgsNotAnObject == args.kind \notin {"undefined", "null", "object"}

\* the per-call value of a property if one was supplied, else the
\* environment's
Supplied(name) ==
    args.kind = "object" /\ args[name].kind \notin {"undefined", "null"}

Effective(name, variable) ==
    IF Supplied(name) THEN args[name] ELSE env[variable]

IsNonEmptyString(v) == v.kind = "string" /\ v.s # ""

CredentialsMissing ==
    \/ ~IsNonEmptyString(Effective("apiKey", "TRELLO_API_KEY"))
    \/ ~IsNonEmptyString(Effective("token", "TRELLO_TOKEN"))

FilterInvalid ==
    /\ args.kind = "object"
    /\ args.filter \notin {Undefined, JsString("all"), JsString("open"),
                           JsString("closed")}

InputInvalid == ArgsNotAnObject \/ CredentialsMissing \/ FilterInvalid

(***************************************************************************)
(* C13 (as claimed): when the client call made by the handler fails with a *)
(* Normalized Error whose message is m, the text of the handler's error    *)
(* result contains m.                                                      *)
(***************************************************************************)
C13_HandlerRendersMessage ==
    (hpc = "settled" /\ ClientFailed) =>
        /\ toolResult.kind = "resolved"
        /\ HandlerFailed
        /\ \E i \in DOMAIN HandlerText : HandlerText[i] = result.value.message

(***************************************************************************)
(* C14 (as claimed): whenever extractCredentials or the schema validation  *)
(* fails, no client is constructed, no method of it is invoked, no request *)
(* is sent, and the handler returns isError: true with a text that starts  *)
(* "Error listing boards: Validation error: ".                             *)
(***************************************************************************)
C14_ValidationErrorText ==
    (hpc # "idle" /\ InputInvalid) =>
        /\ hpc = "settled"
        /\ ClientUntouched
        /\ toolResult.kind = "resolved"
        /\ HandlerFailed
        /\ Len(HandlerText) > 2
        /\ HandlerText[1] = "Error listing boards: "
        /\ HandlerText[2] = "Validation error: "

(***************************************************************************)
(* C14 (amended): whenever extractCredentials or the schema validation     *)
(* fails, no client is constructed, no method of it is invoked, no request *)
(* is sent, and the handler returns isError: true; the text starts "Error  *)
(* listing boards: Validation error: " when a schema rejected the input,   *)
(* and is "Error listing boards: Tool arguments must be an object." when   *)
(* the arguments are not an object.                                        *)
(***************************************************************************)
C14_ValidationBeforeClient ==
    (hpc # "idle" /\ InputInvalid) =>
        /\ hpc = "settled"
        /\ ClientUntouched
        /\ toolResult.kind = "resolved"
        /\ HandlerFailed
        /\ IF ArgsNotAnObject
           THEN HandlerText = <<"Error listing boards: ",
                                "Tool arguments must be an object.">>
           ELSE /\ Len(HandlerText) > 2
                /\ HandlerText[1] = "Error listing boards: "
                /\ HandlerText[2] = "Validation error: "

C14_Witness ==
    /\ hpc = "settled"
    /\ args.kind = "object"
    /\ ~CredentialsMissing
    /\ args.filter = JsString("bogus")
    /\ ClientUntouched
    /\ HandlerText[2] = "Validation error: "

(***************************************************************************)
(* C15: the handler never rejects: whatever the input and whatever the     *)
(* outcome of the client call, it resolves to a result object, with        *)
(* isError: true on every failure and without isError on success.          *)
(***************************************************************************)
C15_Success ==
    /\ ~InputInvalid
    /\ pc = "done"
    /\ result.kind = "return"
    /\ IsArray(result.data)

C15_HandlerAlwaysResolves ==
    hpc = "settled" =>
        /\ toolResult.kind = "resolved"
        /\ toolResult.value.content[1].type = "text"
        /\ IF C15_Success
           THEN "isError" \notin DOMAIN toolResult.value
           ELSE HandlerFailed

C15_Witness ==
    /\ hpc = "settled"
    /\ ClientFailed
    /\ "status" \in DOMAIN result.value /\ result.value.status = 404
    /\ toolResult.kind = "resolved"
    /\ HandlerFailed

(***************************************************************************)
(* C16: apiKey and token are resolved independently, the per-call value    *)
(* before the environment's: a supplied per-call value is the one used,    *)
(* the environment's value is used only when none is supplied, and when    *)
(* the value so chosen is not a non-empty string the call fails with a     *)
(* validation error that names the credential, before any request.         *)
(***************************************************************************)
C16_Names(name) ==
    \E i \in DOMAIN HandlerText :
        HandlerText[i] \in {name \o ": Required",
                            name \o ": API key is required",
                            name \o ": Token is required",
                            name \o ": Expected string, received number"}

C16_CredentialPrecedence ==
    (hpc # "idle" /\ ~ArgsNotAnObject) =>
        LET apiKey == Effective("apiKey", "TRELLO_API_KEY")
            token == Effective("token", "TRELLO_TOKEN")
        IN  IF CredentialsMissing
            THEN /\ hpc = "settled"
                 /\ ClientUntouched
                 /\ HandlerFailed
                 /\ HandlerText[2] = "Validation error: "
                 /\ ~IsNonEmptyString(apiKey) => C16_Names("apiKey")
                 /\ ~IsNonEmptyString(token) => C16_Names("token")
            ELSE ~FilterInvalid =>
                    /\ credentials = [apiKey |-> apiKey.s, token |-> token.s]
                    /\ sent[1].url.query["key"] = apiKey.s
                    /\ sent[1].url.query["token"] = token.s

C16_Witness ==
    /\ hpc = "awaiting"
    /\ args.kind = "object"
    /\ args.apiKey = JsString("key-1")
    /\ env.TRELLO_API_KEY = JsString("env-key")
    /\ args.token = Undefined
    /\ credentials = [apiKey |-> "key-1", token |-> "env-token"]

(***************************************************************************)
(* C17: concurrent calls on one client are independent: in every           *)
(* interleaving each call's attempts, sleeps and result are those of the   *)
(* same call alone on the client with the same backend answers, and the    *)
(* client's credentials are never written.                                 *)
(***************************************************************************)
\* the locals of a call that is alone, after the answers outs
RECURSIVE Alone(_)
Alone(outs) ==
    IF outs = <<>> THEN Started
    ELSE LET before == Alone(SubSeq(outs, 1, Len(outs) - 1))
             ready == IF before.pc = "sleep" THEN Wake(before) ELSE before
             o == outs[Len(outs)]
         IN  IF IsHttp(o) THEN Resolve(ready, o.response) ELSE Reject(ready, o)

C17_AsAlone(c) ==
    \/ c = IdleCall
    \/ c = Alone(c.outcomes)
    \/ Alone(c.outcomes).pc = "sleep" /\ c = Wake(Alone(c.outcomes))

RECURSIVE C21_Doubled(_)
C21_Doubled(n) == IF n = 1 THEN baseDelay ELSE 2 * C21_Doubled(n - 1)

C21_BackoffDelay ==
    (fnArg.fn = "calculateBackoffDelay" /\ fnResult.applied) =>
        LET n == fnArg.arg.attempt
            delay == fnResult.value
        IN  /\ delay = IF C21_Doubled(n) < maxDelay THEN C21_Doubled(n) ELSE maxDelay
            /\ n = 1 => delay = 1000
            /\ n = 2 => delay = 2000
            /\ delay <= maxDelay
            /\ \A m \in 1..n : calculateBackoffDelay(m) <= delay

C21_Witness ==
    /\ fnArg.fn = "calculateBackoffDelay"
    /\ fnResult.applied
    /\ fnArg.arg.attempt = 5
    /\ fnResult.value = maxDelay

(***************************************************************************)
(* C22 (as claimed): the sleep after a 429 response lasts the seconds of   *)
(* its retry-after header when the header holds an integer, and 60 seconds *)
(* when the header is absent or does not hold an integer.                  *)
(***************************************************************************)
C22_RateLimitSleepSeconds ==
    \A j \in DOMAIN log :
        (log[j].type = "sleep" /\ log[j].reason = "ratelimit") =>
            LET header == outcomes[C19_FetchesBefore(j)].response.retryAfter
            IN  log[j].ms = IF IsIntegerHeader(header)
                            THEN parseInt(header) * 1000
                            ELSE 60 * 1000

(***************************************************************************)
(* C23: every attempt has its own timer, armed when the attempt starts and *)
(* cleared when its fetch resolves or rejects: a timer is armed exactly    *)
(* while a fetch is in flight, so no timer of an earlier attempt is left   *)
(* to abort a later one.  An attempt the timer aborts is a timeout: it is  *)
(* retried after a back-off when attempts remain, and fails the call with  *)
(* TIMEOUT_ERROR otherwise.                                                *)
(***************************************************************************)
C23_PerAttemptTimer ==
    /\ timerArmed <=> pc = "fetch"
    /\ \A i \in DOMAIN outcomes :
          outcomes[i] = AbortError =>
              IF i < maxRetries
              THEN /\ Len(log) > FetchIndex(i)
                   /\ log[FetchIndex(i) + 1].type = "sleep"
                   /\ log[FetchIndex(i) + 1].reason = "backoff"
              ELSE /\ Failed
                   /\ NumFetches = i
                   /\ result.value.code = "TIMEOUT_ERROR"
                   /\ HasNoStatus(result.value)

C23_Witness ==
    /\ pc = "fetch"
    /\ timerArmed
    /\ Len(outcomes) = 2
    /\ outcomes[1] = AbortError
    /\ Is429(outcomes[2])
    /\ NumFetches = 3

(***************************************************************************)
(* C24 (as claimed): emitting a record never affects control flow: for the *)
(* same backend answers a call's attempts, sleeps and result are the same  *)
(* whether the logger and insights calls return or throw; a 2xx response   *)
(* with a JSON body is returned as success.                                *)
(***************************************************************************)
C24_EmissionNeverAffectsControlFlow ==
    /\ \/ Self = IdleCall
       \/ Self = Alone(outcomes)
       \/ Alone(outcomes).pc = "sleep" /\ Self = Wake(Alone(outcomes))
    /\ (/\ outcomes # <<>>
        /\ Is2xx(LastOutcome)
        /\ JsonParses(LastOutcome.response.body)) => Succeeded

(***************************************************************************)
(* C25: a call never issues more than maxRetries fetches nor more than     *)
(* maxRetries sleeps, whatever the backend answers, 429 on every attempt   *)
(* included; and a call that was started ends with a result or an error    *)
(* once its fetches settle and its sleeps end.                             *)
(***************************************************************************)
C25_BoundedAndTerminates ==
    /\ [](NumFetches <= maxRetries /\ NumSleeps <= maxRetries)
    /\ (pc \in {"fetch", "sleep"}) ~> (pc = "done")

C25_Witness ==
    /\ Failed
    /\ NumFetches = maxRetries
    /\ NumSleeps = maxRetries
    /\ \A i \in DOMAIN outcomes : Is429(outcomes[i])

(***************************************************************************)
(* C26: when the loop ends because the answer on the last attempt slot was *)
(* 429, the error thrown reports the failure caught most recently in an    *)
(* earlier attempt of the call (SERVER_ERROR with status 500 for 500, 429, *)
(* 429), and is UNKNOWN_ERROR without a status when every attempt was      *)
(* answered with 429; it never carries status 429.                         *)
(***************************************************************************)
\* the attempts whose failure the catch block caught
C26_Caught == {i \in DOMAIN outcomes : ~Is429(outcomes[i])}

C26_LastCaught == CHOOSE i \in C26_Caught : \A k \in C26_Caught : k <= i

C26_CodeOf(o) ==
    IF o = NetworkError THEN "NETWORK_ERROR"
    ELSE IF o = AbortError THEN "TIMEOUT_ERROR"
    ELSE IF o.response.status = 500 THEN "SERVER_ERROR"
    ELSE "API_ERROR"

C27_LastEvent == log[Len(log)]

C27_LastSlot ==
    /\ (Len(outcomes) = maxRetries /\ Is429(LastOutcome)) =>
          LET header == LastOutcome.response.retryAfter IN
          /\ C27_LastEvent.type = "sleep"
          /\ C27_LastEvent.reason = "ratelimit"
          /\ IsIntegerHeader(header) => C27_LastEvent.ms = parseInt(header) * 1000
          /\ header = Null => C27_LastEvent.ms = 60000
          /\ NumFetches = maxRetries
          /\ NumSleeps = maxRetries
          /\ pc \in {"sleep", "done"}
          /\ pc = "done" => Failed
    /\ (Len(outcomes) = maxRetries /\ IsTransient(LastOutcome)) =>
          /\ Failed
          /\ C27_LastEvent = FetchEvent
          /\ NumFetches = maxRetries
          /\ NumSleeps = maxRetries - 1

C27_Witness ==
    /\ Failed
    /\ Len(outcomes) = maxRetries
    /\ Is429(LastOutcome)
    /\ LastOutcome.response.retryAfter = <<"2">>
    /\ C27_LastEvent = SleepEvent("ratelimit", 2000)

(***************************************************************************)
(* C28: every attempt of a call sends the same URL, method, headers and    *)
(* body, the URL being built once before the loop; and a retryable failure *)
(* (timeout, network failure, 5xx, 429) is followed by another attempt     *)
(* whatever the method, so a POST, PUT or DELETE can reach the backend     *)
(* maxRetries times for one call.                                          *)
(***************************************************************************)
C28_Retryable(o) == IsTransient(o) \/ Is429(o)

C28_SameRequestEveryAttempt ==
    /\ Len(sent) <= maxRetries
    /\ \A i \in DOMAIN sent :
          /\ sent[i] = sent[1]
          /\ sent[i].url = url
          /\ sent[i].method = request.method
          /\ sent[i].headers = RequestHeaders
          /\ sent[i].body = request.body
    /\ \A i \in DOMAIN outcomes :
          (i < maxRetries /\ C28_Retryable(outcomes[i])) =>
              \/ pc = "sleep" /\ i = Len(outcomes)
              \/ Len(sent) > i

C28_Witness ==
    /\ Len(sent) = maxRetries
    /\ request.method = "POST"
    /\ request.body # NoBody
    /\ outcomes[1] = AbortError
    /\ Is5xx(outcomes[2])
    /\ sent[3] = sent[1]
    /\ sent[3].body = request.body

(***************************************************************************)
(* C29: a 2xx response whose body is not JSON ends the call at that        *)
(* attempt: no retry and no sleep follow, and the call fails with          *)
(* UNKNOWN_ERROR without a status.                                         *)
(***************************************************************************)
C29_UnparseableBody(o) == Is2xx(o) /\ ~JsonParses(o.response.body)

C29_UnparseableSuccessIsTerminal ==
    \A i \in DOMAIN outcomes :
        C29_UnparseableBody(outcomes[i]) =>
            /\ i = Len(outcomes)
            /\ pc = "done"
            /\ result = Throw([message |-> "Unknown error occurred",
                               code |-> "UNKNOWN_ERROR"])
            /\ NumFetches = i
            /\ log[Len(log)] = FetchEvent
            /\ NumSleeps = i - 1

C29_Witness ==
    /\ Failed
    /\ Len(outcomes) = 2
    /\ Is5xx(outcomes[1])
    /\ C29_UnparseableBody(outcomes[2])
    /\ outcomes[2].response.status = 201
    /\ result.value.code = "UNKNOWN_ERROR"

(***************************************************************************)
(* C30: the params that extractCredentials returns never have the keys     *)
(* apiKey or token, and have every other key of the arguments with its     *)
(* value unchanged.                                                        *)
(***************************************************************************)
C30_OtherKeys(a) ==
    IF a.kind = "object" THEN DOMAIN a \ {"kind", "apiKey", "token"} ELSE {}

C30_ParamsWithoutCredentials ==
    (/\ fnArg.fn = "extractCredentials"
     /\ fnResult.applied
     /\ fnResult.value.ok) =>
        LET params == fnResult.value.value.params
            a == fnArg.arg.args
        IN  /\ "apiKey" \notin DOMAIN params
            /\ "token" \notin DOMAIN params
            /\ DOMAIN params = C30_OtherKeys(a)
            /\ \A k \in C30_OtherKeys(a) : params[k] = a[k]

C30_Witness ==
    /\ fnArg.fn = "extractCredentials"
    /\ fnResult.applied
    /\ fnResult.value.ok
    /\ fnArg.arg.args.kind = "object"
    /\ fnArg.arg.args.apiKey = JsString("key-1")
    /\ fnArg.arg.args.token = JsString("token-1")
    /\ "idList" \in DOMAIN fnArg.arg.args
    /\ fnResult.value.value.params =
          [name |-> JsString("n"), idList |-> JsString("l1"),
           desc |-> JsString("token-1")]

====
